---- MODULE Spec2Model ----
(***************************************************************************)
(* Model of ruma-events/src/key/verification.rs: five unit-variant enums   *)
(* whose text codecs are derived by strum (Display, EnumString) and serde  *)
(* (Serialize, Deserialize, driven through serde_json).                    *)
(*                                                                         *)
(* A string is a sequence of one-character strings.  The wire names are    *)
(* never written down in the model of the code: they are computed from the *)
(* variant identifiers by the case conversions the attributes select       *)
(* (serde's RenameRule, heck's word splitter used by strum), or taken from *)
(* the explicit rename/serialize attribute.                                *)
(***************************************************************************)
EXTENDS Integers, Sequences, FiniteSets

\* ------------------------------------------------------------------------
\* Characters
\* ------------------------------------------------------------------------
LowerLetters ==
  <<"a","b","c","d","e","f","g","h","i","j","k","l","m",
    "n","o","p","q","r","s","t","u","v","w","x","y","z">>

UpperLetters ==
  <<"A","B","C","D","E","F","G","H","I","J","K","L","M",
    "N","O","P","Q","R","S","T","U","V","W","X","Y","Z">>

Digits == {"0","1","2","3","4","5","6","7","8","9"}

Range(f) == { f[i] : i \in DOMAIN f }

\* char::is_lowercase / char::is_uppercase / char::is_alphanumeric (ASCII range)
IsLower(c) == c \in Range(LowerLetters)

IsUpper(c) == c \in Range(UpperLetters)

IsAlphanumeric(c) == IsLower(c) \/ IsUpper(c) \/ c \in Digits

LetterIndex(tbl, c) == CHOOSE i \in DOMAIN tbl : tbl[i] = c

\* char::to_ascii_lowercase / char::to_ascii_uppercase
ToLowerChar(c) == IF IsUpper(c) THEN LowerLetters[LetterIndex(UpperLetters, c)] ELSE c

ToUpperChar(c) == IF IsLower(c) THEN UpperLetters[LetterIndex(LowerLetters, c)] ELSE c

\* str::to_lowercase / str::to_ascii_uppercase
ToLowerStr(s) == [ i \in 1..Len(s) |-> ToLowerChar(s[i]) ]

ToUpperStr(s) == [ i \in 1..Len(s) |-> ToUpperChar(s[i]) ]

\* str::replace(from, to) for single characters
ReplaceChar(s, from, to) == [ i \in 1..Len(s) |-> IF s[i] = from THEN to ELSE s[i] ]

\* ------------------------------------------------------------------------
\* The enum declarations
\* ------------------------------------------------------------------------
EnumNames ==
  {"HashAlgorithm", "KeyAgreementProtocol", "MessageAuthenticationCode",
   "ShortAuthenticationString", "VerificationMethod"}

\* variants of each enum, in declaration order
Variants ==
  [ HashAlgorithm             |-> <<"Sha256">>,
    KeyAgreementProtocol      |-> <<"Curve25519", "Curve25519HkdfSha256">>,
    MessageAuthenticationCode |-> <<"HkdfHmacSha256", "HmacSha256">>,
    ShortAuthenticationString |-> <<"Decimal", "Emoji">>,
    VerificationMethod        |-> <<"MSasV1">> ]

VariantSet(ty) == Range(Variants[ty])

\* the source identifier of each variant, character by character
Ident ==
  [ Sha256               |-> <<"S","h","a","2","5","6">>,
    Curve25519           |-> <<"C","u","r","v","e","2","5","5","1","9">>,
    Curve25519HkdfSha256 |-> <<"C","u","r","v","e","2","5","5","1","9",
                               "H","k","d","f","S","h","a","2","5","6">>,
    HkdfHmacSha256       |-> <<"H","k","d","f","H","m","a","c","S","h","a","2","5","6">>,
    HmacSha256           |-> <<"H","m","a","c","S","h","a","2","5","6">>,
    Decimal              |-> <<"D","e","c","i","m","a","l">>,
    Emoji                |-> <<"E","m","o","j","i">>,
    MSasV1               |-> <<"M","S","a","s","V","1">> ]

\* variation: KeyAgreementProtocol declared with rename_all = "snake_case"
SerdeRenameAll_Snake ==
  [ HashAlgorithm             |-> "snake_case",
    KeyAgreementProtocol      |-> "snake_case",
    MessageAuthenticationCode |-> "kebab-case",
    ShortAuthenticationString |-> "snake_case",
    VerificationMethod        |-> "none" ]

\* #[serde(rename_all = "...")] on each enum ("none" when absent)
SerdeRenameAll ==
  [ HashAlgorithm             |-> "snake_case",
    KeyAgreementProtocol      |-> "kebab-case",
    MessageAuthenticationCode |-> "kebab-case",
    ShortAuthenticationString |-> "snake_case",
    VerificationMethod        |-> "none" ]

\* variation: MessageAuthenticationCode declared with serialize_all = "snake_case"
StrumSerializeAll_Snake ==
  [ HashAlgorithm             |-> "snake_case",
    KeyAgreementProtocol      |-> "kebab-case",
    MessageAuthenticationCode |-> "snake_case",
    ShortAuthenticationString |-> "snake_case",
    VerificationMethod        |-> "none" ]

\* #[strum(serialize_all = "...")] on each enum ("none" when absent)
StrumSerializeAll ==
  [ HashAlgorithm             |-> "snake_case",
    KeyAgreementProtocol      |-> "kebab-case",
    MessageAuthenticationCode |-> "kebab-case",
    ShortAuthenticationString |-> "snake_case",
    VerificationMethod        |-> "none" ]

MSasV1Literal == <<"m",".","s","a","s",".","v","1">>

\* #[serde(rename = "...")] on a variant: a sequence holding the literal, or empty
SerdeRename ==
  [ v \in DOMAIN Ident |-> IF v = "MSasV1" THEN <<MSasV1Literal>> ELSE <<>> ]

\* variation: the strum(serialize) attribute left off MSasV1
StrumSerialize_None == [ v \in DOMAIN Ident |-> <<>> ]

\* #[strum(serialize = "...")] on a variant: the literals given, in order
StrumSerialize ==
  [ v \in DOMAIN Ident |-> IF v = "MSasV1" THEN <<MSasV1Literal>> ELSE <<>> ]

\* ------------------------------------------------------------------------
\* serde_derive: RenameRule::apply_to_variant
\* ------------------------------------------------------------------------
RECURSIVE SerdeSnakeFrom(_, _)
\* SnakeCase: for (i, ch) in variant.char_indices():
\*   if i > 0 && ch.is_uppercase() { push('_') }; push(ch.to_ascii_lowercase())
SerdeSnakeFrom(variant, i) ==
  IF i > Len(variant) THEN <<>>
  ELSE (IF i > 1 /\ IsUpper(variant[i]) THEN <<"_">> ELSE <<>>)
       \o <<ToLowerChar(variant[i])>>
       \o SerdeSnakeFrom(variant, i + 1)

SerdeApplyToVariant(rule, variant) ==
  CASE rule = "snake_case" -> SerdeSnakeFrom(variant, 1)
    [] rule = "kebab-case" -> ReplaceChar(SerdeSnakeFrom(variant, 1), "_", "-")
    [] OTHER               -> variant

\* variation: the serde(rename) attribute of a variant is ignored
SerdeName_NoRename(ty, v) == SerdeApplyToVariant(SerdeRenameAll[ty], Ident[v])

\* the name serde uses for a variant: the rename attribute wins over rename_all
SerdeName(ty, v) ==
  IF SerdeRename[v] # <<>> THEN SerdeRename[v][1]
  ELSE SerdeApplyToVariant(SerdeRenameAll[ty], Ident[v])

\* ------------------------------------------------------------------------
\* strum_macros: case conversion through heck (to_snake_case, to_kebab_case)
\* ------------------------------------------------------------------------
RECURSIVE HeckSegments(_, _, _)
\* s.split(|c| !c.is_alphanumeric()): the maximal alphanumeric runs of s
\* (empty runs contribute no word and are dropped here)
HeckSegments(s, i, cur) ==
  IF i > Len(s) THEN (IF cur = <<>> THEN <<>> ELSE <<cur>>)
  ELSE IF IsAlphanumeric(s[i]) THEN HeckSegments(s, i + 1, Append(cur, s[i]))
  ELSE (IF cur = <<>> THEN <<>> ELSE <<cur>>) \o HeckSegments(s, i + 1, <<>>)

RECURSIVE HeckWords(_, _, _, _)
\* the while loop of heck::transform over one run: i is the current index,
\* init the start of the word being collected, mode the WordMode
HeckWords(word, i, init, mode) ==
  IF i > Len(word) THEN <<>>
  ELSE IF i < Len(word) THEN
    LET c        == word[i]
        next     == word[i + 1]
        nextMode == IF IsLower(c) THEN "Lowercase"
                    ELSE IF IsUpper(c) THEN "Uppercase" ELSE mode
    IN  IF nextMode = "Lowercase" /\ IsUpper(next)
          THEN <<SubSeq(word, init, i)>> \o HeckWords(word, i + 1, i + 1, "Boundary")
        ELSE IF mode = "Uppercase" /\ IsUpper(c) /\ IsLower(next)
          THEN <<SubSeq(word, init, i - 1)>> \o HeckWords(word, i + 1, i, "Boundary")
        ELSE HeckWords(word, i + 1, init, nextMode)
  ELSE <<SubSeq(word, init, Len(word))>>

RECURSIVE HeckAllWords(_)
HeckAllWords(segs) ==
  IF segs = <<>> THEN <<>>
  ELSE HeckWords(Head(segs), 1, 1, "Boundary") \o HeckAllWords(Tail(segs))

RECURSIVE HeckJoin(_, _)
\* with_word = lowercase, boundary = push(sep) between words
HeckJoin(words, sep) ==
  IF words = <<>> THEN <<>>
  ELSE IF Len(words) = 1 THEN ToLowerStr(words[1])
  ELSE ToLowerStr(words[1]) \o <<sep>> \o HeckJoin(Tail(words), sep)

HeckTransform(s, sep) == HeckJoin(HeckAllWords(HeckSegments(s, 1, <<>>)), sep)

\* strum_macros CaseStyle applied to the variant identifier
StrumConvertCase(style, ident) ==
  CASE style = "snake_case" -> HeckTransform(ident, "_")
    [] style = "kebab-case" -> HeckTransform(ident, "-")
    [] OTHER                -> ident

\* variation: the identifier itself is always accepted as well
StrumSerializations_WithIdent(ty, v) ==
  { Ident[v] } \cup
  (IF StrumSerialize[v] # <<>> THEN Range(StrumSerialize[v])
   ELSE { StrumConvertCase(StrumSerializeAll[ty], Ident[v]) })

\* the strings EnumString matches for a variant: the serialize attributes when
\* there are any, otherwise the case-converted identifier
StrumSerializations(ty, v) ==
  IF StrumSerialize[v] # <<>> THEN Range(StrumSerialize[v])
  ELSE { StrumConvertCase(StrumSerializeAll[ty], Ident[v]) }

\* variation: Display ignores serialize_all and writes the identifier
StrumPreferredName_NoCase(ty, v) ==
  IF StrumSerialize[v] # <<>> THEN StrumSerialize[v][1] ELSE Ident[v]

\* the string Display writes: the longest serialize attribute when there are
\* any (the first of the longest), otherwise the case-converted identifier
StrumPreferredName(ty, v) ==
  IF StrumSerialize[v] # <<>>
    THEN LET ss == StrumSerialize[v]
             k  == CHOOSE j \in DOMAIN ss :
                     /\ \A m \in DOMAIN ss : Len(ss[m]) <= Len(ss[j])
                     /\ \A m \in 1..(j - 1) : Len(ss[m]) < Len(ss[j])
         IN  ss[k]
    ELSE StrumConvertCase(StrumSerializeAll[ty], Ident[v])

\* ------------------------------------------------------------------------
\* Results
\* ------------------------------------------------------------------------
NoVariant == "-"

NoError == [kind |-> "none", carries |-> FALSE, recv |-> <<>>]

Ok(v) == [ok |-> TRUE, val |-> v, err |-> NoError]

Err(e) == [ok |-> FALSE, val |-> NoVariant, err |-> e]

\* no result yet
Unset == [ok |-> FALSE, val |-> NoVariant, err |-> [kind |-> "unset", carries |-> FALSE, recv |-> <<>>]]

\* strum::ParseError::VariantNotFound: a unit variant, it holds no data
VariantNotFound == [kind |-> "VariantNotFound", carries |-> FALSE, recv |-> <<>>]

\* serde::de::Error::unknown_variant(value, VARIANTS): the message names value
UnknownVariant(value) == [kind |-> "unknown_variant", carries |-> TRUE, recv |-> value]

\* serde_json syntax error (the text is not one JSON string literal)
SyntaxError == [kind |-> "syntax", carries |-> FALSE, recv |-> <<>>]

\* ------------------------------------------------------------------------
\* strum derives
\* ------------------------------------------------------------------------
\* impl Display: f.pad(<preferred name of the variant>)
StrumDisplay(ty, v) == StrumPreferredName(ty, v)

RECURSIVE StrumMatchFrom(_, _, _)
\* impl FromStr: match s { <serializations of variant 1> => Ok(..), ..., _ => Err }
StrumMatchFrom(ty, s, k) ==
  IF k > Len(Variants[ty]) THEN Err(VariantNotFound)
  ELSE IF s \in StrumSerializations(ty, Variants[ty][k]) THEN Ok(Variants[ty][k])
  ELSE StrumMatchFrom(ty, s, k + 1)

\* variation: matching as under strum(ascii_case_insensitive)
StrumFromStr_CaseInsensitive(ty, s) == StrumMatchFrom(ty, ToLowerStr(s), 1)

StrumFromStr(ty, s) == StrumMatchFrom(ty, s, 1)

\* ------------------------------------------------------------------------
\* serde derives, driven by serde_json
\* ------------------------------------------------------------------------
Quote == "\""

Backslash == "\\"

RECURSIVE JsonEscape(_)
\* serde_json format_escaped_str_contents: '"' and '\\' get a backslash
JsonEscape(s) ==
  IF s = <<>> THEN <<>>
  ELSE (IF Head(s) \in {Quote, Backslash} THEN <<Backslash, Head(s)>> ELSE <<Head(s)>>)
       \o JsonEscape(Tail(s))

\* impl Serialize: serialize_unit_variant(name, index, <serde name>), which
\* serde_json writes as one JSON string literal; writing to a String cannot fail
SerdeJsonToString(ty, v) == <<Quote>> \o JsonEscape(SerdeName(ty, v)) \o <<Quote>>

RECURSIVE JsonReadStr_KeepEscapes(_, _, _)
\* variation: the backslash of an escape is left in the string read
JsonReadStr_KeepEscapes(text, i, acc) ==
  IF i > Len(text) THEN [ok |-> FALSE, str |-> <<>>]
  ELSE IF text[i] = Quote
    THEN (IF i = Len(text) THEN [ok |-> TRUE, str |-> acc] ELSE [ok |-> FALSE, str |-> <<>>])
  ELSE IF text[i] = Backslash
    THEN (IF i + 1 <= Len(text) /\ text[i + 1] \in {Quote, Backslash}
            THEN JsonReadStr_KeepEscapes(text, i + 2, acc \o <<Backslash, text[i + 1]>>)
            ELSE [ok |-> FALSE, str |-> <<>>])
  ELSE JsonReadStr_KeepEscapes(text, i + 1, Append(acc, text[i]))

RECURSIVE JsonReadStr(_, _, _)
\* serde_json parse_str: read from index i up to the closing quote, undoing
\* the escapes; the literal must end the text
JsonReadStr(text, i, acc) ==
  IF i > Len(text) THEN [ok |-> FALSE, str |-> <<>>]
  ELSE IF text[i] = Quote
    THEN (IF i = Len(text) THEN [ok |-> TRUE, str |-> acc] ELSE [ok |-> FALSE, str |-> <<>>])
  ELSE IF text[i] = Backslash
    THEN (IF i + 1 <= Len(text) /\ text[i + 1] \in {Quote, Backslash}
            THEN JsonReadStr(text, i + 2, Append(acc, text[i + 1]))
            ELSE [ok |-> FALSE, str |-> <<>>])
  ELSE JsonReadStr(text, i + 1, Append(acc, text[i]))

JsonParseStringLiteral(text) ==
  IF Len(text) >= 1 /\ text[1] = Quote THEN JsonReadStr(text, 2, <<>>)
  ELSE [ok |-> FALSE, str |-> <<>>]

RECURSIVE SerdeMatchFrom(_, _, _)
\* the derived variant visitor: visit_str matches the serde names in order,
\* _ => Err(unknown_variant(value, VARIANTS))
SerdeMatchFrom(ty, s, k) ==
  IF k > Len(Variants[ty]) THEN Err(UnknownVariant(s))
  ELSE IF s = SerdeName(ty, Variants[ty][k]) THEN Ok(Variants[ty][k])
  ELSE SerdeMatchFrom(ty, s, k + 1)

SerdeVisitStr(ty, s) == SerdeMatchFrom(ty, s, 1)

\* serde_json::from_str::<E>(text) for a text holding one JSON string literal
SerdeJsonFromStr(ty, text) ==
  LET lit == JsonParseStringLiteral(text)
  IN  IF lit.ok THEN SerdeVisitStr(ty, lit.str) ELSE Err(SyntaxError)

RECURSIVE SerdeVecFrom(_, _, _, _)
\* impl Deserialize for Vec<E>, visit_seq: elements in order, the first
\* element error is the error of the whole array
SerdeVecFrom(ty, arr, k, acc) ==
  IF k > Len(arr) THEN [ok |-> TRUE, vals |-> acc, err |-> NoError]
  ELSE LET r == SerdeVisitStr(ty, arr[k])
       IN  IF r.ok THEN SerdeVecFrom(ty, arr, k + 1, Append(acc, r.val))
           ELSE [ok |-> FALSE, vals |-> <<>>, err |-> r.err]

RECURSIVE SerdeVecFrom_Lenient(_, _, _, _)
\* variation: an element that does not decode is skipped
SerdeVecFrom_Lenient(ty, arr, k, acc) ==
  IF k > Len(arr) THEN [ok |-> TRUE, vals |-> acc, err |-> NoError]
  ELSE LET r == SerdeVisitStr(ty, arr[k])
       IN  SerdeVecFrom_Lenient(ty, arr, k + 1, IF r.ok THEN Append(acc, r.val) ELSE acc)

SerdeJsonVecFromValue_Lenient(ty, arr) == SerdeVecFrom_Lenient(ty, arr, 1, <<>>)

\* serde_json::from_value::<Vec<E>>(json!([...])) for an array of strings
SerdeJsonVecFromValue(ty, arr) == SerdeVecFrom(ty, arr, 1, <<>>)

\* variation: an equality that does not look at the variant
PartialEqEq_Always(a, b) == TRUE

\* derive(PartialEq) on a field-less enum: the discriminants are compared
PartialEqEq(a, b) == a = b

\* ------------------------------------------------------------------------
\* Inputs
\* ------------------------------------------------------------------------
\* longest arbitrary string tried by the decoders
MaxLen == 2

\* longest JSON array tried
MaxArr == 2

\* the wire table of the protocol, written out literally
CanonicalWire ==
  [ Sha256               |-> <<"s","h","a","2","5","6">>,
    Curve25519           |-> <<"c","u","r","v","e","2","5","5","1","9">>,
    Curve25519HkdfSha256 |-> <<"c","u","r","v","e","2","5","5","1","9","-",
                               "h","k","d","f","-","s","h","a","2","5","6">>,
    HkdfHmacSha256       |-> <<"h","k","d","f","-","h","m","a","c","-",
                               "s","h","a","2","5","6">>,
    HmacSha256           |-> <<"h","m","a","c","-","s","h","a","2","5","6">>,
    Decimal              |-> <<"d","e","c","i","m","a","l">>,
    Emoji                |-> <<"e","m","o","j","i">>,
    MSasV1               |-> <<"m",".","s","a","s",".","v","1">> ]

AllWire == Range(CanonicalWire)

\* the canonical strings of one enumeration
WireOf(ty) == { CanonicalWire[v] : v \in VariantSet(ty) }

\* s with the letter at position i switched to the other case
FlipAt(s, i) ==
  [ j \in 1..Len(s) |->
      IF j # i THEN s[j]
      ELSE IF IsLower(s[j]) THEN ToUpperChar(s[j]) ELSE ToLowerChar(s[j]) ]

\* s with the first letter of every word capitalised ("M.Sas.V1")
TitleCase(s) ==
  [ j \in 1..Len(s) |->
      IF j = 1 \/ ~IsAlphanumeric(s[j - 1]) THEN ToUpperChar(s[j]) ELSE s[j] ]

\* the forms of a canonical string that differ from it in letter case only
CaseVariants(s) ==
  ({ ToUpperStr(s), TitleCase(s) } \cup { FlipAt(s, i) : i \in 1..Len(s) }) \ {s}

SmallAlphabet == {"a", "S", "1", "-", "_", ".", Quote, Backslash}

RECURSIVE StringsUpTo(_)
StringsUpTo(n) ==
  IF n = 0 THEN { <<>> }
  ELSE LET shorter == StringsUpTo(n - 1)
       IN  shorter \cup { Append(t, c) : t \in shorter, c \in SmallAlphabet }

Inputs ==
  AllWire
    \cup Range(Ident)
    \cup UNION { CaseVariants(s) : s \in AllWire }
    \cup UNION { { SubSeq(s, 1, k) : k \in 0..(Len(s) - 1) } : s \in AllWire }
    \cup { ReplaceChar(s, "-", "_") : s \in AllWire }
    \cup { ReplaceChar(s, ".", "_") : s \in AllWire }
    \cup { s \o <<c>> : s \in AllWire, c \in {"_", "-", Quote} }
    \cup StringsUpTo(MaxLen)

ArrayElems == AllWire \cup { <<>>, TitleCase(CanonicalWire["HmacSha256"]) }

RECURSIVE ArraysUpTo(_)
ArraysUpTo(n) ==
  IF n = 0 THEN { <<>> }
  ELSE LET shorter == ArraysUpTo(n - 1)
       IN  shorter \cup { Append(a, e) : a \in shorter, e \in ArrayElems }

\* ------------------------------------------------------------------------
\* State: the arguments of a call on the codec, the operations performed on
\* them so far, and what they returned
\* ------------------------------------------------------------------------
VARIABLES
  op,        \* the operation(s) performed so far ("init": none yet)
  inKind,    \* what the arguments are: "variant", "string" or "array"
  ty,        \* the enumeration
  vArg,      \* the variant given to an encoder, left operand of ==
  vArg2,     \* right operand of ==
  sArg,      \* the string given to a decoder
  aArg,      \* the JSON array given to the Vec decoder
  dispOut,   \* output of Display
  jsonOut,   \* output of serde_json::to_string
  jsonOut2,  \* output of serde_json::to_string of vArg2
  parsed,    \* result of FromStr
  jparsed,   \* result of serde_json::from_str
  aRes,      \* result of serde_json::from_value::<Vec<_>>
  eqRes      \* result of ==

vars == <<op, inKind, ty, vArg, vArg2, sArg, aArg, dispOut, jsonOut, jsonOut2,
          parsed, jparsed, aRes, eqRes>>

NoVec == [ok |-> FALSE, vals |-> <<>>, err |-> [kind |-> "unset", carries |-> FALSE, recv |-> <<>>]]

Init ==
  /\ op = "init"
  /\ ty \in EnumNames
  /\ \/ /\ inKind = "variant"
        /\ vArg \in VariantSet(ty) /\ vArg2 \in VariantSet(ty)
        /\ sArg = <<>> /\ aArg = <<>>
     \/ /\ inKind = "string"
        /\ vArg = NoVariant /\ vArg2 = NoVariant
        /\ sArg \in Inputs /\ aArg = <<>>
     \/ /\ inKind = "array"
        /\ vArg = NoVariant /\ vArg2 = NoVariant
        /\ sArg = <<>> /\ aArg \in ArraysUpTo(MaxArr)
  /\ dispOut = <<>> /\ jsonOut = <<>> /\ jsonOut2 = <<>>
  /\ parsed = Unset /\ jparsed = Unset
  /\ aRes = NoVec
  /\ eqRes = FALSE

args == <<inKind, ty, vArg, vArg2, sArg, aArg>>

\* vArg.to_string() through the strum Display
Display ==
  /\ op = "init" /\ inKind = "variant"
  /\ op' = "display"
  /\ dispOut' = StrumDisplay(ty, vArg)
  /\ UNCHANGED <<args, jsonOut, jsonOut2, parsed, jparsed, aRes, eqRes>>

\* serde_json::to_string(&vArg)
JsonToString ==
  /\ op = "init" /\ inKind = "variant"
  /\ op' = "to_string"
  /\ jsonOut' = SerdeJsonToString(ty, vArg)
  /\ UNCHANGED <<args, dispOut, jsonOut2, parsed, jparsed, aRes, eqRes>>

\* the value that was displayed is also serialized
JsonToStringAfterDisplay ==
  /\ op = "display"
  /\ op' = "display+to_string"
  /\ jsonOut' = SerdeJsonToString(ty, vArg)
  /\ UNCHANGED <<args, dispOut, jsonOut2, parsed, jparsed, aRes, eqRes>>

\* sArg.parse::<E>() through the strum FromStr
FromStr ==
  /\ op = "init" /\ inKind = "string"
  /\ op' = "from_str"
  /\ parsed' = StrumFromStr(ty, sArg)
  /\ UNCHANGED <<args, dispOut, jsonOut, jsonOut2, jparsed, aRes, eqRes>>

\* serde_json::from_str::<E>() of the JSON string literal holding sArg
JsonFromStr ==
  /\ op = "init" /\ inKind = "string"
  /\ op' = "json_from_str"
  /\ jparsed' = SerdeJsonFromStr(ty, <<Quote>> \o JsonEscape(sArg) \o <<Quote>>)
  /\ UNCHANGED <<args, dispOut, jsonOut, jsonOut2, parsed, aRes, eqRes>>

\* the string given to FromStr is also given to the JSON decoder
JsonFromStrAfterFromStr ==
  /\ op = "from_str"
  /\ op' = "from_str+json_from_str"
  /\ jparsed' = SerdeJsonFromStr(ty, <<Quote>> \o JsonEscape(sArg) \o <<Quote>>)
  /\ UNCHANGED <<args, dispOut, jsonOut, jsonOut2, parsed, aRes, eqRes>>

\* the displayed text is parsed back
FromStrOfDisplay ==
  /\ op = "display"
  /\ op' = "display>from_str"
  /\ parsed' = StrumFromStr(ty, dispOut)
  /\ UNCHANGED <<args, dispOut, jsonOut, jsonOut2, jparsed, aRes, eqRes>>

\* the serialized JSON text is parsed back (tests serialize_key_agreement,
\* serialize_mac_method)
JsonFromStrOfToString ==
  /\ op = "to_string"
  /\ op' = "to_string>json_from_str"
  /\ jparsed' = SerdeJsonFromStr(ty, jsonOut)
  /\ UNCHANGED <<args, dispOut, jsonOut, jsonOut2, parsed, aRes, eqRes>>

\* the variant FromStr returned is displayed
DisplayOfParsed ==
  /\ op = "from_str" /\ parsed.ok
  /\ op' = "from_str>display"
  /\ dispOut' = StrumDisplay(ty, parsed.val)
  /\ UNCHANGED <<args, jsonOut, jsonOut2, parsed, jparsed, aRes, eqRes>>

\* the variant the JSON decoder returned is serialized
JsonToStringOfJParsed ==
  /\ op = "json_from_str" /\ jparsed.ok
  /\ op' = "json_from_str>to_string"
  /\ jsonOut' = SerdeJsonToString(ty, jparsed.val)
  /\ UNCHANGED <<args, dispOut, jsonOut2, parsed, jparsed, aRes, eqRes>>

\* serde_json::from_value::<Vec<E>>(json!(aArg)) (test deserialize_mac_method)
FromJsonValueVec ==
  /\ op = "init" /\ inKind = "array"
  /\ op' = "from_value_vec"
  /\ aRes' = SerdeJsonVecFromValue(ty, aArg)
  /\ UNCHANGED <<args, dispOut, jsonOut, jsonOut2, parsed, jparsed, eqRes>>

\* vArg == vArg2, together with the serialization of both operands
Eq ==
  /\ op = "init" /\ inKind = "variant"
  /\ op' = "eq"
  /\ eqRes' = PartialEqEq(vArg, vArg2)
  /\ jsonOut' = SerdeJsonToString(ty, vArg)
  /\ jsonOut2' = SerdeJsonToString(ty, vArg2)
  /\ UNCHANGED <<args, dispOut, parsed, jparsed, aRes>>

Next ==
  \/ Display
  \/ JsonToString
  \/ JsonToStringAfterDisplay
  \/ FromStr
  \/ JsonFromStr
  \/ JsonFromStrAfterFromStr
  \/ FromStrOfDisplay
  \/ JsonFromStrOfToString
  \/ DisplayOfParsed
  \/ JsonToStringOfJParsed
  \/ FromJsonValueVec
  \/ Eq

Spec == Init /\ [][Next]_vars

\* ------------------------------------------------------------------------
\* Properties
\* ------------------------------------------------------------------------
JsonLiteral(s) == <<Quote>> \o s \o <<Quote>>

\* states in which jsonOut is the serialization of vArg
SerializedVArg == op \in {"to_string", "display+to_string", "to_string>json_from_str", "eq"}

\* states in which parsed is the result of FromStr on sArg
ParsedSArg == op \in {"from_str", "from_str+json_from_str", "from_str>display"}

\* states in which jparsed is the result of the JSON decoder on the literal of sArg
JParsedSArg == op \in {"json_from_str", "from_str+json_from_str", "json_from_str>to_string"}

\* C1: serializing a variant to JSON yields exactly the string literal of the
\* wire table (sha256, curve25519, curve25519-hkdf-sha256, hkdf-hmac-sha256,
\* hmac-sha256, decimal, emoji, m.sas.v1), for every variant of every enum.
C1_EncodeIsCanonical ==
  SerializedVArg => jsonOut = JsonLiteral(CanonicalWire[vArg])

C1_Witness ==
  /\ op = "to_string" /\ ty = "VerificationMethod" /\ vArg = "MSasV1"
  /\ jsonOut = <<Quote, "m", ".", "s", "a", "s", ".", "v", "1", Quote>>

\* C2: encode then decode gives the variant back, for Display then FromStr
\* and for serde_json::to_string then serde_json::from_str.
C2_EncodeDecodeRoundTrip ==
  /\ op = "display>from_str" => parsed = Ok(vArg)
  /\ op = "to_string>json_from_str" => jparsed = Ok(vArg)

C2_Witness ==
  /\ op = "to_string>json_from_str" /\ vArg = "Curve25519HkdfSha256"
  /\ jsonOut = JsonLiteral(CanonicalWire["Curve25519HkdfSha256"])
  /\ jparsed.ok /\ jparsed.val = "Curve25519HkdfSha256"

\* C3: a string that is not a canonical wire string of the enumeration is
\* rejected by both decoders: an error, never a variant.
C3_DecodeRejectsUnknown ==
  sArg \notin WireOf(ty) =>
    /\ ParsedSArg => (~parsed.ok /\ parsed.val = NoVariant)
    /\ JParsedSArg => (~jparsed.ok /\ jparsed.val = NoVariant)

C3_Witness ==
  /\ op = "from_str+json_from_str" /\ ty = "HashAlgorithm"
  /\ sArg = Ident["Sha256"]
  /\ ~parsed.ok /\ ~jparsed.ok

\* C4: a string that differs from a canonical wire string of the enumeration
\* in letter case only is rejected by both decoders.
C4_DecodeCaseSensitive ==
  (\E w \in WireOf(ty) : sArg \in CaseVariants(w)) =>
    /\ ParsedSArg => ~parsed.ok
    /\ JParsedSArg => ~jparsed.ok

C4_Witness ==
  /\ op = "from_str+json_from_str" /\ ty = "VerificationMethod"
  /\ sArg = <<"M", ".", "S", "a", "s", ".", "V", "1">>
  /\ ~parsed.ok /\ ~jparsed.ok

\* C5: decoding a canonical wire string of the enumeration succeeds, and
\* encoding the decoded variant gives the string back (both codecs).
C5_DecodeEncodeRoundTrip ==
  sArg \in WireOf(ty) =>
    /\ ParsedSArg => (parsed.ok /\ parsed.val \in VariantSet(ty))
    /\ JParsedSArg => (jparsed.ok /\ jparsed.val \in VariantSet(ty))
    /\ op = "from_str>display" => dispOut = sArg
    /\ op = "json_from_str>to_string" => jsonOut = JsonLiteral(sArg)

C5_Witness ==
  /\ op = "json_from_str>to_string" /\ ty = "VerificationMethod"
  /\ sArg = MSasV1Literal /\ jparsed.val = "MSasV1"
  /\ jsonOut = JsonLiteral(sArg)

\* C6: the text Display writes for a variant is the contents of the JSON
\* string Serialize writes for it.
C6_DisplayAgreesWithEncode ==
  op = "display+to_string" =>
    /\ JsonParseStringLiteral(jsonOut).ok
    /\ JsonParseStringLiteral(jsonOut).str = dispOut

C6_Witness ==
  /\ op = "display+to_string" /\ vArg = "HkdfHmacSha256"
  /\ dispOut = CanonicalWire["HkdfHmacSha256"]
  /\ jsonOut = JsonLiteral(dispOut)

\* the variants the wire table gives for an array of canonical strings
TableDecodes(t, arr, vals) ==
  /\ Len(vals) = Len(arr)
  /\ \A i \in 1..Len(arr) : vals[i] \in VariantSet(t) /\ CanonicalWire[vals[i]] = arr[i]

\* C7: a JSON array of canonical wire strings parses to the sequence of their
\* variants, same length and order; an array with an element that is not
\* canonical fails as a whole; ["hkdf-hmac-sha256", "hmac-sha256"] parses to
\* [HkdfHmacSha256, HmacSha256].
C7_ArrayDecode ==
  op = "from_value_vec" =>
    /\ (\A i \in 1..Len(aArg) : aArg[i] \in WireOf(ty))
         => (aRes.ok /\ TableDecodes(ty, aArg, aRes.vals))
    /\ (\E i \in 1..Len(aArg) : aArg[i] \notin WireOf(ty)) => ~aRes.ok
    /\ (ty = "MessageAuthenticationCode"
          /\ aArg = <<CanonicalWire["HkdfHmacSha256"], CanonicalWire["HmacSha256"]>>)
         => (aRes.ok /\ aRes.vals = <<"HkdfHmacSha256", "HmacSha256">>)

C7_Witness ==
  /\ op = "from_value_vec" /\ ty = "MessageAuthenticationCode"
  /\ aArg = <<CanonicalWire["HkdfHmacSha256"], CanonicalWire["HmacSha256"]>>
  /\ aRes.ok /\ Len(aRes.vals) = 2

\* C8: within an enumeration two variants are equal exactly when their
\* serializations are equal; distinct variants never share a wire string.
C8_EqualityIffSameWire ==
  op = "eq" =>
    /\ eqRes <=> (jsonOut = jsonOut2)
    /\ vArg # vArg2 => jsonOut # jsonOut2

C8_Witness ==
  /\ op = "eq" /\ vArg = "Curve25519" /\ vArg2 = "Curve25519HkdfSha256"
  /\ ~eqRes /\ jsonOut # jsonOut2

\* C9 as stated: whenever a decoder fails, the error carries the received
\* string unchanged.
C9_ErrorCarriesReceived ==
  /\ (ParsedSArg /\ ~parsed.ok) => (parsed.err.carries /\ parsed.err.recv = sArg)
  /\ (JParsedSArg /\ ~jparsed.ok) => (jparsed.err.carries /\ jparsed.err.recv = sArg)

\* C9 amended: each decoder has one error kind on a string input. FromStr
\* fails only with VariantNotFound, which holds no data; the JSON decoder
\* fails on a string literal only with unknown_variant naming the received
\* string unchanged. What an encoder writes is always a JSON string literal.
C9_OneErrorKindPerDecoder ==
  /\ (ParsedSArg /\ ~parsed.ok) => parsed.err = VariantNotFound
  /\ (JParsedSArg /\ ~jparsed.ok) => jparsed.err = UnknownVariant(sArg)
  /\ SerializedVArg => JsonParseStringLiteral(jsonOut).ok

C9_Witness ==
  /\ op = "from_str+json_from_str" /\ ty = "ShortAuthenticationString"
  /\ sArg = <<"e", "m", "o", "j", "i", Quote>>
  /\ parsed.err.kind = "VariantNotFound" /\ ~parsed.err.carries
  /\ jparsed.err.kind = "unknown_variant" /\ jparsed.err.recv = sArg

\* C10: on every input string the strum FromStr and the serde JSON decoder
\* agree: one accepts iff the other does, and then with the same variant.
C10_DecodersAgree ==
  op = "from_str+json_from_str" =>
    /\ parsed.ok <=> jparsed.ok
    /\ parsed.val = jparsed.val

C10_Witness ==
  /\ op = "from_str+json_from_str" /\ ty = "KeyAgreementProtocol"
  /\ sArg = CanonicalWire["Curve25519HkdfSha256"]
  /\ parsed.ok /\ jparsed.ok /\ parsed.val = "Curve25519HkdfSha256"

====
